---- MODULE Spec2Model ----
(***************************************************************************)
(* rsume: a resume data file (TOML) is deserialized into an Author, turned *)
(* into a Tera context, rendered through a template with the escape_latex  *)
(* filter, and the rendered text is compiled to PDF by tectonic.           *)
(*                                                                         *)
(* Text is modelled as a sequence of one-character strings, so that        *)
(* escaping and date formatting are computed character by character.       *)
(***************************************************************************)
EXTENDS Integers, Sequences, FiniteSets, TLC

VARIABLES
    value, res1, res2, epc,          \* the filter applied to one Value, once and twice
    pc, args, fsys,                  \* position in main, the command line, the file system
    raw, author, tera, context,      \* file text, the Author, the Tera instance, the Context
    rendered, session, outputs,      \* rendered text, the compiler session, files written
    exitCode, diag,                  \* the process exit code and the diagnostic it printed
    trace, completed                 \* steps started (in order) and steps completed

evars == <<value, res1, res2, epc>>
pvars == <<pc, args, fsys, raw, author, tera, context, rendered, session, outputs,
           exitCode, diag, trace, completed>>
vars == <<value, res1, res2, epc, pc, args, fsys, raw, author, tera, context, rendered,
          session, outputs, exitCode, diag, trace, completed>>

(***************************************************************************)
(* Bounds                                                                  *)
(***************************************************************************)
MaxLen == 3            \* longest text handed to the filter
MaxEntries == 2        \* longest experiences / educations list in a data file
MaxPathLen == 2        \* most components in a path argument

(***************************************************************************)
(* Generic helpers                                                         *)
(***************************************************************************)
Range(s) == {s[i] : i \in DOMAIN s}
Min(S) == CHOOSE x \in S : \A y \in S : x <= y
SeqsUpTo(S, n) == UNION {[1..k -> S] : k \in 0..n}
None == <<>>
Some(x) == <<x>>
Ok(v) == [ok |-> TRUE, val |-> v]
Err(kind, path) == [ok |-> FALSE, kind |-> kind, path |-> path]

(***************************************************************************)
(* tera::Value (serde_json::Value)                                         *)
(***************************************************************************)
JNull == [t |-> "null"]
JBool(b) == [t |-> "bool", b |-> b]
JNum(n) == [t |-> "number", n |-> n]
JStr(s) == [t |-> "string", s |-> s]
JArr(a) == [t |-> "array", a |-> a]
JObj(m) == [t |-> "object", m |-> m]

(***************************************************************************)
(* escape_latex                                                            *)
(***************************************************************************)
EscapedSet == {"&", "%", "#", "$"}
Backslash == "\\"

\* Mutant: '$' left out of the match arm.
EscapeCharNoDollar(c) == IF c \in EscapedSet \ {"$"} THEN <<Backslash, c>> ELSE <<c>>

\* The body of the for loop: what one character appends to output.
EscapeChar(c) == IF c \in EscapedSet THEN <<Backslash, c>> ELSE <<c>>

RECURSIVE EscapeLoop(_, _, _)
EscapeLoop(input, i, output) ==
    IF i > Len(input) THEN output
    ELSE EscapeLoop(input, i + 1, output \o EscapeChar(input[i]))

\* Mutant: a filter that lets a non-string value through unchanged.
escape_latex_lenient(v) ==
    IF v.t # "string" THEN Ok(v) ELSE Ok(JStr(EscapeLoop(v.s, 1, <<>>)))

RECURSIVE SkipLoop(_, _, _)
SkipLoop(input, i, output) ==
    IF i > Len(input) THEN output
    ELSE IF input[i] = Backslash /\ i < Len(input) /\ input[i + 1] \in EscapedSet
         THEN SkipLoop(input, i + 2, output \o <<input[i], input[i + 1]>>)
         ELSE SkipLoop(input, i + 1, output \o EscapeChar(input[i]))

\* Mutant: a filter that leaves an already escaped character alone.
escape_latex_idempotent(v) ==
    IF v.t # "string" THEN Err("filter", <<"escape_latex">>)
    ELSE Ok(JStr(SkipLoop(v.s, 1, <<>>)))

\* try_get_value! returns an error unless the value is a String.
escape_latex(v) ==
    IF v.t # "string" THEN Err("filter", <<"escape_latex">>)
    ELSE Ok(JStr(EscapeLoop(v.s, 1, <<>>)))

(***************************************************************************)
(* toml::value::Datetime and its Display (to_string)                       *)
(***************************************************************************)
DigitChars == <<"0", "1", "2", "3", "4", "5", "6", "7", "8", "9">>
Digit(n) == DigitChars[(n % 10) + 1]
Pad2(n) == <<Digit(n \div 10), Digit(n)>>
Pad4(n) == <<Digit(n \div 1000), Digit(n \div 100), Digit(n \div 10), Digit(n)>>
Pad9(n) == <<Digit(n \div 100000000), Digit(n \div 10000000), Digit(n \div 1000000),
             Digit(n \div 100000), Digit(n \div 10000), Digit(n \div 1000),
             Digit(n \div 100), Digit(n \div 10), Digit(n)>>

RECURSIVE TrimEndZeros(_)
TrimEndZeros(s) ==
    IF s # <<>> /\ s[Len(s)] = "0" THEN TrimEndZeros(SubSeq(s, 1, Len(s) - 1)) ELSE s

DateToString(d) == Pad4(d.year) \o <<"-">> \o Pad2(d.month) \o <<"-">> \o Pad2(d.day)

TimeToString(t) ==
    Pad2(t.hour) \o <<":">> \o Pad2(t.minute) \o <<":">> \o Pad2(t.second)
    \o (IF t.nanosecond # 0 THEN <<".">> \o TrimEndZeros(Pad9(t.nanosecond)) ELSE <<>>)

OffsetToString(o) ==
    IF o.z THEN <<"Z">>
    ELSE LET m == IF o.minutes < 0 THEN 0 - o.minutes ELSE o.minutes
         IN  <<IF o.minutes < 0 THEN "-" ELSE "+">> \o Pad2(m \div 60) \o <<":">> \o Pad2(m % 60)

DatetimeToString(d) ==
    (IF d.date # None THEN DateToString(d.date[1]) ELSE <<>>)
    \o (IF d.time # None
        THEN (IF d.date # None THEN <<"T">> ELSE <<>>) \o TimeToString(d.time[1])
        ELSE <<>>)
    \o (IF d.offset # None THEN OffsetToString(d.offset[1]) ELSE <<>>)

\* The date-times a data file can hold: offset date-time, local date-time,
\* local date, local time.
Dates == {[year |-> 2019, month |-> 8, day |-> 5], [year |-> 2023, month |-> 12, day |-> 31]}
Times == {[hour |-> 9, minute |-> 5, second |-> 0, nanosecond |-> 0],
          [hour |-> 23, minute |-> 59, second |-> 59, nanosecond |-> 500000000]}
Offsets == {[z |-> TRUE, minutes |-> 0], [z |-> FALSE, minutes |-> 60],
            [z |-> FALSE, minutes |-> 0 - 330]}
Datetimes ==
    {[date |-> Some(d), time |-> Some(t), offset |-> Some(o)] : d \in Dates, t \in Times, o \in Offsets}
    \cup {[date |-> Some(d), time |-> Some(t), offset |-> None] : d \in Dates, t \in Times}
    \cup {[date |-> Some(d), time |-> None, offset |-> None] : d \in Dates}
    \cup {[date |-> None, time |-> Some(t), offset |-> None] : t \in Times}

(***************************************************************************)
(* TOML values: a table is the sequence of its key/value entries, in the   *)
(* order the file gives them.                                              *)
(***************************************************************************)
TStr(s) == [t |-> "string", s |-> s]
TInt(n) == [t |-> "integer", n |-> n]
TFloat(f) == [t |-> "float", f |-> f]
TBool(b) == [t |-> "boolean", b |-> b]
TDatetime(d) == [t |-> "datetime", d |-> d]
TArray(a) == [t |-> "array", a |-> a]
TTable(e) == [t |-> "table", e |-> e]
KV(k, v) == [k |-> k, v |-> v]

Keys(entries) == {entries[i].k : i \in DOMAIN entries}
Get(entries, key) == entries[CHOOSE i \in DOMAIN entries : entries[i].k = key].v

\* f64: a finite number (in hundredths), or one of TOML's nan / inf.
Finite(n) == [k |-> "finite", n |-> n]
NaN == [k |-> "nan", n |-> 0]
Inf == [k |-> "inf", n |-> 0]

(***************************************************************************)
(* The schema: the fields of each struct, in declaration order             *)
(***************************************************************************)
LocationFields == <<"address", "postal_code", "city", "country_code", "region">>
SocialFields == <<"username", "url">>
CompanyFields == <<"name", "location">>
ExperienceFields == <<"company", "department", "position", "website", "start_date",
                      "end_date", "current", "display", "highlights">>
GradePointAverageFields == <<"major", "overall">>
EducationFields == <<"institution", "website", "major", "minor", "start_date", "end_date",
                     "current", "gpa", "achievements", "location", "degree", "latin_honors">>
SkillFields == <<"name", "level", "keywords", "category">>
ProjectFields == <<"name", "website", "source", "description">>
AuthorFields == <<"name", "email", "description", "picture", "phone", "website", "location",
                  "social", "experiences", "educations", "skills", "projects">>

\* Mutant: #[serde(default)] put on start_date as well.
DefaultFieldsWithStart == {"end_date", "start_date"}

\* The fields marked #[serde(default)].
DefaultFields == {"end_date"}

(***************************************************************************)
(* Deserialization (serde derive over the toml deserializer)               *)
(***************************************************************************)
InvalidType(v) == Err("invalid type", <<>>)

DeString(v) == IF v.t = "string" THEN Ok(v.s) ELSE InvalidType(v)
DeBool(v) == IF v.t = "boolean" THEN Ok(v.b) ELSE InvalidType(v)
\* An f64 field takes a TOML float, and an integer widened to a float.
DeF64(v) ==
    IF v.t = "float" THEN Ok(v.f)
    ELSE IF v.t = "integer" THEN Ok(Finite(v.n * 100))
    ELSE InvalidType(v)

TableIndexes(v) == IF v.t = "table" THEN DOMAIN v.e ELSE {}
ArrayIndexes(v) == IF v.t = "array" THEN DOMAIN v.a ELSE {}

\* A sequence: res[i] is the result for the i-th element, and the first
\* element that fails decides the error.
DeVec(v, res) ==
    IF v.t # "array" THEN InvalidType(v)
    ELSE LET bad == {i \in DOMAIN v.a : ~res[i].ok}
         IN  IF bad # {} THEN res[Min(bad)]
             ELSE Ok([i \in DOMAIN v.a |-> res[i].val])

datetime_to_string(v) ==
    IF v.t = "datetime" THEN Ok(DatetimeToString(v.d)) ELSE InvalidType(v)

\* Mutant: an optional date that is read but dropped.
datetime_to_option_string_drop(v) ==
    IF v.t = "datetime" THEN Ok(None) ELSE InvalidType(v)

\* The toml deserializer has no null: a key that is present is always Some.
datetime_to_option_string(v) ==
    IF v.t = "datetime" THEN Ok(Some(DatetimeToString(v.d))) ELSE InvalidType(v)

\* The derived visit_map: res[i] is the result of the field's deserializer
\* on the i-th entry.  Entries are visited in file order and the first value
\* that fails ends the visit; then the first field (in declaration order)
\* that was not seen and has no default is reported missing.
VisitMap(v, fields, res) ==
    IF v.t # "table" THEN InvalidType(v)
    ELSE LET e == v.e
             bad == {i \in DOMAIN e : e[i].k \in Range(fields) /\ ~res[i].ok}
             missing == {j \in DOMAIN fields :
                            fields[j] \notin Keys(e) /\ fields[j] \notin DefaultFields}
             At(f) == CHOOSE i \in DOMAIN e : e[i].k = f
         IN  IF bad # {}
             THEN Err(res[Min(bad)].kind, <<e[Min(bad)].k>> \o res[Min(bad)].path)
             ELSE IF missing # {}
             THEN Err("missing field", <<fields[Min(missing)]>>)
             ELSE Ok([f \in Range(fields) |-> IF f \in Keys(e) THEN res[At(f)].val ELSE None])

AllStringResults(v) == [i \in TableIndexes(v) |-> DeString(v.e[i].v)]
DeLocation(v) == VisitMap(v, LocationFields, AllStringResults(v))
DeSocial(v) == VisitMap(v, SocialFields, AllStringResults(v))
DeCompany(v) == VisitMap(v, CompanyFields, AllStringResults(v))
DeSkill(v) == VisitMap(v, SkillFields, AllStringResults(v))
DeProject(v) == VisitMap(v, ProjectFields, AllStringResults(v))

DeGradePointAverage(v) ==
    VisitMap(v, GradePointAverageFields, [i \in TableIndexes(v) |-> DeF64(v.e[i].v)])

DeVecString(v) == DeVec(v, [i \in ArrayIndexes(v) |-> DeString(v.a[i])])

DeExperienceField(f, v) ==
    CASE f = "company" -> DeCompany(v)
      [] f = "start_date" -> datetime_to_string(v)
      [] f = "end_date" -> datetime_to_option_string(v)
      [] f = "current" -> DeBool(v)
      [] f \in {"display", "highlights"} -> DeVecString(v)
      [] OTHER -> DeString(v)

\* Mutant: a validator that clears the end date of a current entry.
DeExperienceClearing(v) ==
    LET r == VisitMap(v, ExperienceFields,
                      [i \in TableIndexes(v) |-> DeExperienceField(v.e[i].k, v.e[i].v)])
    IN  IF r.ok /\ r.val.current THEN Ok([r.val EXCEPT !.end_date = None]) ELSE r

DeExperience(v) ==
    VisitMap(v, ExperienceFields,
             [i \in TableIndexes(v) |-> DeExperienceField(v.e[i].k, v.e[i].v)])

DeEducationField(f, v) ==
    CASE f = "start_date" -> datetime_to_string(v)
      [] f = "end_date" -> datetime_to_option_string(v)
      [] f = "current" -> DeBool(v)
      [] f = "gpa" -> DeGradePointAverage(v)
      [] f = "achievements" -> DeVecString(v)
      [] OTHER -> DeString(v)
DeEducation(v) ==
    VisitMap(v, EducationFields,
             [i \in TableIndexes(v) |-> DeEducationField(v.e[i].k, v.e[i].v)])

\* HashMap<String, Social>: every key of the table, each value a Social.
DeSocialMap(v) ==
    IF v.t # "table" THEN InvalidType(v)
    ELSE LET e == v.e
             bad == {i \in DOMAIN e : ~DeSocial(e[i].v).ok}
         IN  IF bad # {}
             THEN Err(DeSocial(e[Min(bad)].v).kind,
                      <<e[Min(bad)].k>> \o DeSocial(e[Min(bad)].v).path)
             ELSE Ok([k \in Keys(e) |-> DeSocial(Get(e, k)).val])

DeAuthorField(f, v) ==
    CASE f = "location" -> DeLocation(v)
      [] f = "social" -> DeSocialMap(v)
      [] f = "experiences" -> DeVec(v, [i \in ArrayIndexes(v) |-> DeExperience(v.a[i])])
      [] f = "educations" -> DeVec(v, [i \in ArrayIndexes(v) |-> DeEducation(v.a[i])])
      [] f = "skills" -> DeVec(v, [i \in ArrayIndexes(v) |-> DeSkill(v.a[i])])
      [] f = "projects" -> DeVec(v, [i \in ArrayIndexes(v) |-> DeProject(v.a[i])])
      [] OTHER -> DeString(v)

\* toml::from_str::<Author> on a document that is well-formed TOML.
DeAuthor(doc) ==
    VisitMap(TTable(doc), AuthorFields, [i \in DOMAIN doc |-> DeAuthorField(doc[i].k, doc[i].v)])

(***************************************************************************)
(* Serialization (serde derive into serde_json::Value) and the Context     *)
(***************************************************************************)
SerString(x) == JStr(x)
SerVecString(x) == JArr([i \in DOMAIN x |-> JStr(x[i])])

\* No field is marked skip_serializing_if: an absent date is serialized as null.
SerOptionString(x) == IF x = None THEN JNull ELSE JStr(x[1])

\* serde_json has no number for NaN or an infinity: they become null.
SerF64(x) == IF x.k = "finite" THEN JNum(x) ELSE JNull

SerAllStrings(fields, x) == JObj([f \in Range(fields) |-> SerString(x[f])])
SerLocation(x) == SerAllStrings(LocationFields, x)
SerSocial(x) == SerAllStrings(SocialFields, x)
SerCompany(x) == SerAllStrings(CompanyFields, x)
SerSkill(x) == SerAllStrings(SkillFields, x)
SerProject(x) == SerAllStrings(ProjectFields, x)
SerGradePointAverage(x) == JObj([f \in Range(GradePointAverageFields) |-> SerF64(x[f])])

SerExperience(x) ==
    JObj([f \in Range(ExperienceFields) |->
            CASE f = "company" -> SerCompany(x[f])
              [] f = "end_date" -> SerOptionString(x[f])
              [] f = "current" -> JBool(x[f])
              [] f \in {"display", "highlights"} -> SerVecString(x[f])
              [] OTHER -> SerString(x[f])])

SerEducation(x) ==
    JObj([f \in Range(EducationFields) |->
            CASE f = "end_date" -> SerOptionString(x[f])
              [] f = "current" -> JBool(x[f])
              [] f = "gpa" -> SerGradePointAverage(x[f])
              [] f = "achievements" -> SerVecString(x[f])
              [] OTHER -> SerString(x[f])])

SerAuthor(x) ==
    JObj([f \in Range(AuthorFields) |->
            CASE f = "location" -> SerLocation(x[f])
              [] f = "social" -> JObj([k \in DOMAIN x[f] |-> SerSocial(x[f][k])])
              [] f = "experiences" -> JArr([i \in DOMAIN x[f] |-> SerExperience(x[f][i])])
              [] f = "educations" -> JArr([i \in DOMAIN x[f] |-> SerEducation(x[f][i])])
              [] f = "skills" -> JArr([i \in DOMAIN x[f] |-> SerSkill(x[f][i])])
              [] f = "projects" -> JArr([i \in DOMAIN x[f] |-> SerProject(x[f][i])])
              [] OTHER -> SerString(x[f])])

\* Context::from_serialize: the value must serialize to an object, whose
\* members become the context's data.
ContextFromSerialize(a) ==
    LET obj == SerAuthor(a)
    IN  IF obj.t = "object" THEN Ok(obj.m) ELSE Err("context", <<>>)

(***************************************************************************)
(* Rendering: a template is a sequence of literal text and substitution    *)
(* sites; a site names a dotted path and the filters applied to it.        *)
(***************************************************************************)
Text(s) == [kind |-> "text", s |-> s, path |-> <<>>, filters |-> <<>>]
Var(path, filters) == [kind |-> "var", s |-> <<>>, path |-> path, filters |-> filters]

IsIndex(key) == key \in Range(DigitChars)
IndexOf(key) == CHOOSE i \in DOMAIN DigitChars : DigitChars[i] = key

\* The value at a dotted path, or None: a member of an object, or the
\* element of an array at a 0-based index.
RECURSIVE LookupPath(_, _)
LookupPath(node, path) ==
    IF path = <<>> THEN Some(node)
    ELSE IF node.t = "object" /\ path[1] \in DOMAIN node.m
         THEN LookupPath(node.m[path[1]], Tail(path))
    ELSE IF node.t = "array" /\ IsIndex(path[1]) /\ IndexOf(path[1]) \in DOMAIN node.a
         THEN LookupPath(node.a[IndexOf(path[1])], Tail(path))
    ELSE None

\* How a value is written into the output.
ValueToText(v) ==
    CASE v.t = "string" -> v.s
      [] v.t = "null" -> <<>>
      [] v.t = "bool" -> IF v.b THEN <<"t", "r", "u", "e">> ELSE <<"f", "a", "l", "s", "e">>
      [] OTHER -> <<"[", "o", "b", "j", "e", "c", "t", "]">>

RECURSIVE ApplyFilters(_, _, _)
ApplyFilters(registered, filters, v) ==
    IF filters = <<>> THEN Ok(v)
    ELSE IF filters[1] \notin registered THEN Err("filter not found", <<filters[1]>>)
    ELSE LET r == escape_latex(v)
         IN  IF r.ok THEN ApplyFilters(registered, Tail(filters), r.val) ELSE r

RenderSite(registered, ctx, site) ==
    IF site.kind = "text" THEN Ok(site.s)
    ELSE LET found == LookupPath(JObj(ctx), site.path)
         IN  IF found = None THEN Err("undefined variable", site.path)
             ELSE LET r == ApplyFilters(registered, site.filters, found[1])
                  IN  IF r.ok THEN Ok(ValueToText(r.val)) ELSE r

RECURSIVE RenderSites(_, _, _, _)
RenderSites(registered, ctx, sites, output) ==
    IF sites = <<>> THEN Ok(output)
    ELSE LET r == RenderSite(registered, ctx, sites[1])
         IN  IF r.ok THEN RenderSites(registered, ctx, Tail(sites), output \o r.val) ELSE r

\* tera.render(name, context)
Render(t, name, ctx) ==
    IF name \notin DOMAIN t.templates THEN Err("template not found", <<name>>)
    ELSE RenderSites(t.filters, ctx, t.templates[name], <<>>)

(***************************************************************************)
(* Paths                                                                   *)
(***************************************************************************)
PathOf(abs, comps) == [abs |-> abs, comps |-> comps, utf8 |-> TRUE]

\* Path::parent: the path without its last component; none for a root or
\* an empty path.
Parent(p) ==
    IF p.comps = <<>> THEN None
    ELSE Some([p EXCEPT !.comps = SubSeq(p.comps, 1, Len(p.comps) - 1)])

(***************************************************************************)
(* Data files                                                              *)
(***************************************************************************)
DropKey(e, k) == SelectSeq(e, LAMBDA x : x.k # k)
SetKey(e, k, v) == [i \in DOMAIN e |-> IF e[i].k = k THEN KV(k, v) ELSE e[i]]
Reverse(e) == [i \in DOMAIN e |-> e[Len(e) + 1 - i]]
AllStrings(fields, txt) == [i \in DOMAIN fields |-> KV(fields[i], TStr(txt))]

Date1 == [date |-> Some([year |-> 2019, month |-> 8, day |-> 5]), time |-> None, offset |-> None]
Date2 == [date |-> Some([year |-> 2023, month |-> 12, day |-> 31]),
          time |-> Some([hour |-> 9, minute |-> 5, second |-> 0, nanosecond |-> 0]),
          offset |-> Some([z |-> TRUE, minutes |-> 0])]

ExperienceTable(start, end, current) ==
    TTable(<<KV("company", TTable(AllStrings(CompanyFields, <<"C", "&", "o">>))),
             KV("department", TStr(<<"R", "&", "D">>)),
             KV("position", TStr(<<"d", "e", "v", "#", "1">>)),
             KV("website", TStr(<<"w">>)),
             KV("start_date", TDatetime(start))>>
           \o (IF end = None THEN <<>> ELSE <<KV("end_date", TDatetime(end[1]))>>)
           \o <<KV("current", TBool(current)),
                KV("display", TArray(<<TStr(<<"a">>), TStr(<<"b">>)>>)),
                KV("highlights", TArray(<<TStr(<<"5", "%">>)>>))>>)

EducationTable(end, current, major, overall) ==
    TTable(<<KV("institution", TStr(<<"U">>)),
             KV("website", TStr(<<"w">>)),
             KV("major", TStr(<<"C", "S">>)),
             KV("minor", TStr(<<"M">>)),
             KV("start_date", TDatetime(Date1))>>
           \o (IF end = None THEN <<>> ELSE <<KV("end_date", TDatetime(end[1]))>>)
           \o <<KV("current", TBool(current)),
                KV("gpa", TTable(<<KV("major", major), KV("overall", overall)>>)),
                KV("achievements", TArray(<<TStr(<<"x">>)>>)),
                KV("location", TStr(<<"L">>)),
                KV("degree", TStr(<<"B", "S">>)),
                KV("latin_honors", TStr(<<>>))>>)

BaseExperience == ExperienceTable(Date1, Some(Date2), FALSE)
BaseEducation == EducationTable(Some(Date2), FALSE, TFloat(Finite(350)), TFloat(Finite(380)))

AuthorDoc(exps, edus) ==
    <<KV("name", TStr(<<"A", "&", "B">>)),
      KV("email", TStr(<<"a", "@", "b">>)),
      KV("description", TStr(<<"1", "0", "0", "%">>)),
      KV("picture", TStr(<<"p">>)),
      KV("phone", TStr(<<"5">>)),
      KV("website", TStr(<<"w">>)),
      KV("location", TTable(AllStrings(LocationFields, <<"$", "1">>))),
      KV("social", TTable(<<KV("github", TTable(AllStrings(SocialFields, <<"g">>)))>>)),
      KV("experiences", TArray(exps)),
      KV("educations", TArray(edus)),
      KV("skills", TArray(<<TTable(AllStrings(SkillFields, <<"s">>))>>)),
      KV("projects", TArray(<<TTable(AllStrings(ProjectFields, <<"p">>))>>))>>

BaseDoc == AuthorDoc(<<BaseExperience>>, <<BaseEducation>>)

\* Lists of experiences and of educations, every combination of a set or
\* unset end_date with current.
ExperienceChoices ==
    {ExperienceTable(Date1, end, cur) : end \in {None, Some(Date1), Some(Date2)}, cur \in BOOLEAN}
EducationChoices ==
    {EducationTable(end, cur, TFloat(Finite(350)), TFloat(Finite(380))) :
        end \in {None, Some(Date2)}, cur \in BOOLEAN}
ListDocs ==
    {AuthorDoc(exps, <<BaseEducation>>) : exps \in SeqsUpTo(ExperienceChoices, MaxEntries)}
    \cup {AuthorDoc(<<BaseExperience>>, edus) : edus \in SeqsUpTo(EducationChoices, MaxEntries)}

\* Every shape of date-time as a start date, with the end date unset or set.
DateDocs ==
    {AuthorDoc(<<ExperienceTable(d, end, FALSE)>>, <<>>) :
        d \in Datetimes, end \in {None, Some(Date2)}}
    \cup {AuthorDoc(<<ExperienceTable(Date1, Some(d), FALSE)>>, <<>>) : d \in Datetimes}

\* Grade point averages: floats, TOML's nan and inf, and an integer.
GpaValues == {TFloat(Finite(350)), TFloat(NaN), TFloat(Inf), TInt(4)}
GpaDocs ==
    {AuthorDoc(<<>>, <<EducationTable(None, TRUE, major, overall)>>) :
        major \in GpaValues, overall \in GpaValues}

\* Defective files: a key left out (at the top level or in a nested table),
\* a value of the wrong type, or both.
InTable(doc, k, Edit(_)) == SetKey(doc, k, TTable(Edit(Get(doc, k).e)))
InFirst(doc, k, Edit(_)) ==
    SetKey(doc, k, TArray([Get(doc, k).a EXCEPT ![1] = TTable(Edit(Get(doc, k).a[1].e))]))
Wrong == TInt(5)

MissingTopDocs == {DropKey(BaseDoc, f) : f \in Range(AuthorFields)}
MissingNestedDocs ==
    {InTable(BaseDoc, "location", LAMBDA e : DropKey(e, f)) : f \in Range(LocationFields)}
    \cup {InTable(BaseDoc, "social", LAMBDA e :
             InTable(e, "github", LAMBDA g : DropKey(g, f))) : f \in Range(SocialFields)}
    \cup {InFirst(BaseDoc, "experiences", LAMBDA e : DropKey(e, f)) : f \in Range(ExperienceFields)}
    \cup {InFirst(BaseDoc, "experiences", LAMBDA e :
             InTable(e, "company", LAMBDA c : DropKey(c, f))) : f \in Range(CompanyFields)}
    \cup {InFirst(BaseDoc, "educations", LAMBDA e : DropKey(e, f)) : f \in Range(EducationFields)}
    \cup {InFirst(BaseDoc, "educations", LAMBDA e :
             InTable(e, "gpa", LAMBDA g : DropKey(g, f))) : f \in Range(GradePointAverageFields)}
    \cup {InFirst(BaseDoc, "skills", LAMBDA e : DropKey(e, f)) : f \in Range(SkillFields)}
    \cup {InFirst(BaseDoc, "projects", LAMBDA e : DropKey(e, f)) : f \in Range(ProjectFields)}
WrongTypeDocs ==
    {SetKey(BaseDoc, f, Wrong) : f \in Range(AuthorFields)}
    \cup {InFirst(BaseDoc, "experiences", LAMBDA e : SetKey(e, f, TStr(<<"2", "0", "1", "9">>))) :
             f \in {"start_date", "end_date"}}
    \cup {InFirst(BaseDoc, "educations", LAMBDA e : SetKey(e, f, Wrong)) :
             f \in {"start_date", "end_date", "current", "gpa"}}
MissingAndWrongDocs ==
    {SetKey(DropKey(BaseDoc, f), g, Wrong) : f \in Range(AuthorFields), g \in Range(AuthorFields)}
DefectDocs ==
    LET one == MissingTopDocs \cup MissingNestedDocs \cup WrongTypeDocs \cup MissingAndWrongDocs
    IN  one \cup {Reverse(d) : d \in one}

Docs == {BaseDoc, Reverse(BaseDoc)} \cup ListDocs \cup DateDocs \cup GpaDocs \cup DefectDocs

(***************************************************************************)
(* Templates directory, command lines                                      *)
(***************************************************************************)
EscapeFilter == <<"escape_latex">>
Templates ==
    [n \in {"resume.tex", "position.tex", "dates.tex", "typed.tex", "undef.tex"} |->
        CASE n = "resume.tex" ->
                <<Text(<<"N", "=">>), Var(<<"name">>, EscapeFilter), Text(<<";">>),
                  Var(<<"location", "city">>, <<>>)>>
          [] n = "position.tex" ->
                <<Var(<<"name">>, EscapeFilter), Text(<<" ">>),
                  Var(<<"experiences", "0", "position">>, <<>>)>>
          [] n = "dates.tex" ->
                <<Var(<<"experiences", "0", "start_date">>, EscapeFilter), Text(<<"-">>),
                  Var(<<"experiences", "0", "end_date">>, EscapeFilter)>>
          [] n = "typed.tex" -> <<Var(<<"location">>, EscapeFilter)>>
          [] n = "undef.tex" -> <<Var(<<"nickname">>, <<>>)>>]
TemplateNames == DOMAIN Templates \cup {"missing.tex"}

PathNames == {"tex", "cv"}
Paths == {PathOf(abs, comps) : abs \in BOOLEAN, comps \in SeqsUpTo(PathNames, MaxPathLen)}

ArgsOf(tpath, tname, root) ==
    [input_path |-> PathOf(FALSE, <<"resume.toml">>),
     template_path |-> tpath,
     template_filename |-> tname,
     tex_root |-> root,
     output_root |-> PathOf(FALSE, <<"out">>)]
TemplatePath == PathOf(FALSE, <<"templates", "*">>)
BaseArgs == ArgsOf(TemplatePath, "resume.tex", PathOf(FALSE, <<"tex", "cv">>))

NoDiag == [msg |-> "", kind |-> "", path |-> <<>>]
Diag(msg, e) == [msg |-> msg, kind |-> e.kind, path |-> e.path]
Plain(msg) == [msg |-> msg, kind |-> "", path |-> <<>>]

(***************************************************************************)
(* main                                                                    *)
(***************************************************************************)
\* The steps of a run, in the order main starts them.
Steps == <<"Load", "Validate", "LoadTemplates", "RegisterFilter", "BuildContext",
           "RenderEntry", "Compile", "Persist">>

\* Mutant: the failure is reported but the process ends as if it had succeeded.
PanicSwallowed(d) ==
    /\ pc' = "exited"
    /\ exitCode' = Some(0)
    /\ diag' = d

\* A failed expect: the panic message is printed and the process ends with
\* Rust's panic exit code.
Panic(d) ==
    /\ pc' = "exited"
    /\ exitCode' = Some(101)
    /\ diag' = d

\* fs::read_to_string(args.input_path).expect(..)
ReadFile ==
    /\ pc = "read"
    /\ trace' = Append(trace, "Load")
    /\ IF fsys.readable
       THEN /\ raw' = Some(fsys.doc)
            /\ completed' = completed \cup {"Load"}
            /\ pc' = "parse"
            /\ UNCHANGED <<exitCode, diag>>
       ELSE /\ Panic(Plain("couldn't read toml data file"))
            /\ UNCHANGED <<raw, completed>>
    /\ UNCHANGED <<args, fsys, author, tera, context, rendered, session, outputs>>
    /\ UNCHANGED evars

\* toml::from_str(..).expect(..)
ParseToml ==
    /\ pc = "parse"
    /\ trace' = Append(trace, "Validate")
    /\ LET r == DeAuthor(raw[1])
       IN  IF r.ok
           THEN /\ author' = Some(r.val)
                /\ completed' = completed \cup {"Validate"}
                /\ pc' = "tera_new"
                /\ UNCHANGED <<exitCode, diag>>
           ELSE /\ Panic(Diag("couldn't parse toml data", r))
                /\ UNCHANGED <<author, completed>>
    /\ UNCHANGED <<args, fsys, raw, tera, context, rendered, session, outputs>>
    /\ UNCHANGED evars

\* Mutant: the template errors are printed but the run goes on.
TeraNewNoExit ==
    /\ pc = "tera_new"
    /\ trace' = Append(trace, "LoadTemplates")
    /\ IF ~args.template_path.utf8 \/ ~fsys.templates_ok
       THEN /\ diag' = Plain("Parsing error(s)")
            /\ tera' = Some([templates |-> Templates, filters |-> {}])
            /\ pc' = "register"
            /\ UNCHANGED <<exitCode, completed>>
       ELSE /\ tera' = Some([templates |-> Templates, filters |-> {}])
            /\ completed' = completed \cup {"LoadTemplates"}
            /\ pc' = "register"
            /\ UNCHANGED <<exitCode, diag>>
    /\ UNCHANGED <<args, fsys, raw, author, context, rendered, session, outputs>>
    /\ UNCHANGED evars

\* Tera::new(args.template_path.to_str().expect(..)), exit(1) on an error
TeraNew ==
    /\ pc = "tera_new"
    /\ trace' = Append(trace, "LoadTemplates")
    /\ IF ~args.template_path.utf8
       THEN /\ Panic(Plain("Template path must be present"))
            /\ UNCHANGED <<tera, completed>>
       ELSE IF ~fsys.templates_ok
       THEN /\ pc' = "exited"
            /\ exitCode' = Some(1)
            /\ diag' = Plain("Parsing error(s)")
            /\ UNCHANGED <<tera, completed>>
       ELSE /\ tera' = Some([templates |-> Templates, filters |-> {}])
            /\ completed' = completed \cup {"LoadTemplates"}
            /\ pc' = "register"
            /\ UNCHANGED <<exitCode, diag>>
    /\ UNCHANGED <<args, fsys, raw, author, context, rendered, session, outputs>>
    /\ UNCHANGED evars

\* tera.register_filter("escape_latex", escape_latex)
RegisterFilter ==
    /\ pc = "register"
    /\ trace' = Append(trace, "RegisterFilter")
    /\ tera' = Some([tera[1] EXCEPT !.filters = @ \cup {"escape_latex"}])
    /\ completed' = completed \cup {"RegisterFilter"}
    /\ pc' = "context"
    /\ UNCHANGED <<args, fsys, raw, author, context, rendered, session, outputs, exitCode, diag>>
    /\ UNCHANGED evars

\* Context::from_serialize(&author).expect(..)
BuildContext ==
    /\ pc = "context"
    /\ trace' = Append(trace, "BuildContext")
    /\ LET r == ContextFromSerialize(author[1])
       IN  IF r.ok
           THEN /\ context' = Some(r.val)
                /\ completed' = completed \cup {"BuildContext"}
                /\ pc' = "render"
                /\ UNCHANGED <<exitCode, diag>>
           ELSE /\ Panic(Diag("couldn't convert author struct to tera context", r))
                /\ UNCHANGED <<context, completed>>
    /\ UNCHANGED <<args, fsys, raw, author, tera, rendered, session, outputs>>
    /\ UNCHANGED evars

\* tera.render(&args.template_filename, &context).expect(..)
RenderEntry ==
    /\ pc = "render"
    /\ trace' = Append(trace, "RenderEntry")
    /\ LET r == Render(tera[1], args.template_filename, context[1])
       IN  IF r.ok
           THEN /\ rendered' = Some(r.val)
                /\ completed' = completed \cup {"RenderEntry"}
                /\ pc' = "setup"
                /\ UNCHANGED <<exitCode, diag>>
           ELSE /\ Panic(Diag("rending template failed", r))
                /\ UNCHANGED <<rendered, completed>>
    /\ UNCHANGED <<args, fsys, raw, author, tera, context, session, outputs>>
    /\ UNCHANGED evars

(***************************************************************************)
(* latex_to_pdf                                                            *)
(***************************************************************************)
\* The three ctry! calls before the session is built: the configuration
\* file, the resource bundle, the format cache.  An Err returned by
\* latex_to_pdf meets main's expect("processing failed").
OpenConfig ==
    /\ pc = "setup"
    /\ trace' = Append(trace, "Compile")
    /\ \E outcome \in {"ok", "failed to open the default configuration file",
                       "failed to load the default resource bundle",
                       "failed to set up the format cache"} :
          IF outcome = "ok"
          THEN /\ pc' = "builder"
               /\ UNCHANGED <<exitCode, diag>>
          ELSE Panic([msg |-> "processing failed", kind |-> outcome, path |-> <<>>])
    /\ UNCHANGED <<args, fsys, raw, author, tera, context, rendered, session, outputs, completed>>
    /\ UNCHANGED evars

\* ProcessingSessionBuilder: the values the session is configured with.
BuildSession ==
    /\ pc = "builder"
    /\ LET parent == Parent(args.tex_root)
       IN  IF parent = None
           THEN /\ Panic(Plain("filepath has no parent"))
                /\ UNCHANGED session
           ELSE /\ session' = Some([primary_input |-> rendered[1],
                                    filesystem_root |-> parent[1],
                                    tex_input_name |-> args.template_filename,
                                    format_name |-> "latex",
                                    output_format |-> "Pdf",
                                    output_dir |-> args.output_root])
                /\ pc' = "run"
                /\ UNCHANGED <<exitCode, diag>>
    /\ UNCHANGED <<args, fsys, raw, author, tera, context, rendered, outputs, trace, completed>>
    /\ UNCHANGED evars

\* sb.create and sess.run up to the end of the engine passes
RunEngine ==
    /\ pc = "run"
    /\ \E outcome \in {"ok", "failed to initialize the LaTeX processing session",
                       "the LaTeX engine failed"} :
          IF outcome = "ok"
          THEN /\ completed' = completed \cup {"Compile"}
               /\ pc' = "write"
               /\ UNCHANGED <<exitCode, diag>>
          ELSE /\ Panic([msg |-> "processing failed", kind |-> outcome, path |-> <<>>])
               /\ UNCHANGED completed
    /\ UNCHANGED <<args, fsys, raw, author, tera, context, rendered, session, outputs, trace>>
    /\ UNCHANGED evars

\* The end of sess.run: the session writes its output files to output_dir.
WriteOutputs ==
    /\ pc = "write"
    /\ trace' = Append(trace, "Persist")
    /\ \E written \in BOOLEAN :
          IF written
          THEN /\ outputs' = {[dir |-> session[1].output_dir, format |-> session[1].output_format,
                               of |-> session[1].tex_input_name]}
               /\ completed' = completed \cup {"Persist"}
               /\ pc' = "return"
               /\ UNCHANGED <<exitCode, diag>>
          ELSE /\ Panic([msg |-> "processing failed", kind |-> "the LaTeX engine failed",
                         path |-> <<>>])
               /\ UNCHANGED <<outputs, completed>>
    /\ UNCHANGED <<args, fsys, raw, author, tera, context, rendered, session>>
    /\ UNCHANGED evars

\* latex_to_pdf returned Ok and main returns.
Return ==
    /\ pc = "return"
    /\ pc' = "exited"
    /\ exitCode' = Some(0)
    /\ UNCHANGED <<args, fsys, raw, author, tera, context, rendered, session, outputs, diag,
                   trace, completed>>
    /\ UNCHANGED evars

(***************************************************************************)
(* Specification of a run of main                                          *)
(***************************************************************************)
FilterIdle ==
    /\ value = JNull
    /\ res1 = None
    /\ res2 = None
    /\ epc = "idle"

\* A run starts from a command line and a file system: every data file
\* under the usual command line, and every command line over the base file.
Init ==
    /\ FilterIdle
    /\ pc = "read"
    /\ \/ /\ fsys \in [readable : {TRUE}, doc : Docs, templates_ok : {TRUE}]
          /\ args \in {ArgsOf(TemplatePath, n, BaseArgs.tex_root) :
                          n \in {"resume.tex", "position.tex", "dates.tex"}}
       \/ /\ fsys \in [readable : BOOLEAN, doc : {BaseDoc}, templates_ok : BOOLEAN]
          /\ args \in {ArgsOf(tp, n, root) :
                          tp \in {TemplatePath, [TemplatePath EXCEPT !.utf8 = FALSE]},
                          n \in TemplateNames, root \in Paths}
    /\ raw = None
    /\ author = None
    /\ tera = None
    /\ context = None
    /\ rendered = None
    /\ session = None
    /\ outputs = {}
    /\ exitCode = None
    /\ diag = NoDiag
    /\ trace = <<>>
    /\ completed = {}

Next ==
    \/ ReadFile
    \/ ParseToml
    \/ TeraNew
    \/ RegisterFilter
    \/ BuildContext
    \/ RenderEntry
    \/ OpenConfig
    \/ BuildSession
    \/ RunEngine
    \/ WriteOutputs
    \/ Return

Spec == Init /\ [][Next]_vars

(***************************************************************************)
(* Specification of the filter at a substitution site: the template engine *)
(* hands it one Value, and a template may chain it a second time.          *)
(***************************************************************************)
Alphabet == {"a", Backslash} \cup EscapedSet
Strings == SeqsUpTo(Alphabet, MaxLen)
\* What a template can name in a context: text, and also a flag, an absent
\* date, a number, a list, a nested entity.
SitePaths == {<<"name">>, <<"location">>, <<"experiences">>,
              <<"experiences", "0", "current">>, <<"experiences", "0", "end_date">>,
              <<"experiences", "0", "start_date">>, <<"educations", "0", "gpa", "major">>}
SiteValues ==
    LET ctx == SerAuthor(DeAuthor(AuthorDoc(<<ExperienceTable(Date1, None, TRUE)>>,
                                            <<BaseEducation>>)).val)
    IN  {LookupPath(ctx, path)[1] : path \in SitePaths}
Values == {JStr(str) : str \in Strings} \cup SiteValues

MainIdle ==
    /\ pc = "idle"
    /\ args = BaseArgs
    /\ fsys = [readable |-> TRUE, doc |-> BaseDoc, templates_ok |-> TRUE]
    /\ raw = None
    /\ author = None
    /\ tera = None
    /\ context = None
    /\ rendered = None
    /\ session = None
    /\ outputs = {}
    /\ exitCode = None
    /\ diag = NoDiag
    /\ trace = <<>>
    /\ completed = {}

FilterInit ==
    /\ MainIdle
    /\ value \in Values
    /\ res1 = None
    /\ res2 = None
    /\ epc = "start"

\* {{ value | escape_latex }}
ApplyFilter ==
    /\ epc = "start"
    /\ res1' = Some(escape_latex(value))
    /\ epc' = "once"
    /\ UNCHANGED <<value, res2>>
    /\ UNCHANGED pvars

\* {{ value | escape_latex | escape_latex }}: the second filter runs on the
\* first one's result, when there is one.
ApplyFilterAgain ==
    /\ epc = "once"
    /\ res1[1].ok
    /\ res2' = Some(escape_latex(res1[1].val))
    /\ epc' = "twice"
    /\ UNCHANGED <<value, res1>>
    /\ UNCHANGED pvars

FilterNext ==
    \/ ApplyFilter
    \/ ApplyFilterAgain

FilterSpec == FilterInit /\ [][FilterNext]_vars

(***************************************************************************)
(* Properties of the escape filter (checked under FilterSpec)              *)
(***************************************************************************)
Special == {"&", "%", "#", "$"}
HasSpecial(str) == \E i \in DOMAIN str : str[i] \in Special
\* How many of the first i characters of str are escaped.
SpecialsUpTo(str, i) == Cardinality({j \in 1..i : str[j] \in Special})

\* C1: the output of escape_latex on a string is the input with a backslash
\* put before each of & % # $ and every other character kept, in order: the
\* i-th input character sits at position i + (number of escaped characters
\* up to i), right after a backslash when it is an escaped character; every
\* escaped-set character of the output follows a backslash; the output is at
\* least as long as the input.
C1_EscapeCharByChar ==
    (epc # "start" /\ value.t = "string") =>
        /\ res1[1].ok
        /\ res1[1].val.t = "string"
        /\ LET inp == value.s
               out == res1[1].val.s
               Pos(i) == i + SpecialsUpTo(inp, i)
           IN  /\ Len(out) = Len(inp) + SpecialsUpTo(inp, Len(inp))
               /\ Len(out) >= Len(inp)
               /\ \A i \in DOMAIN inp :
                     /\ out[Pos(i)] = inp[i]
                     /\ inp[i] \in Special => out[Pos(i) - 1] = "\\"
               /\ \A k \in DOMAIN out : out[k] \in Special => (k > 1 /\ out[k - 1] = "\\")

C1_Witness ==
    /\ epc = "once"
    /\ value = JStr(<<"a", "&", "$">>)
    /\ res1 = Some(Ok(JStr(<<"a", "\\", "&", "\\", "$">>)))

\* C2 as stated: whatever value the template engine passes, the filter
\* returns a result and never an error.
C2_TotalOnEveryValue == epc # "start" => res1[1].ok

\* C2 as amended: the filter returns an escaped string for every string
\* value, and returns an error for every value that is not a string.
C2_TotalOnStrings ==
    epc # "start" =>
        /\ res1[1].ok <=> value.t = "string"
        /\ res1[1].ok => res1[1].val.t = "string"

C2_Witness ==
    /\ epc = "once"
    /\ value = JStr(<<"a", "%">>)
    /\ res1[1].ok
    /\ res1[1].val.s = <<"a", "\\", "%">>

\* C3: for a string holding at least one of & % # $, filtering twice gives a
\* result different from filtering once.
C3_TwiceDiffersFromOnce ==
    (epc = "twice" /\ value.t = "string" /\ HasSpecial(value.s)) =>
        /\ res2[1].ok
        /\ res2[1].val # res1[1].val

C3_Witness ==
    /\ epc = "twice"
    /\ value = JStr(<<"&">>)
    /\ res1[1].val = JStr(<<"\\", "&">>)
    /\ res2[1].val = JStr(<<"\\", "\\", "&">>)

(***************************************************************************)
(* Properties of a run of main (checked under Spec)                        *)
(***************************************************************************)
Started(step) == step \in Range(trace)
Exited == pc = "exited"

\* The stage of the pipeline each step belongs to, and the stages' order.
StageOf(step) ==
    CASE step \in {"LoadTemplates", "RegisterFilter", "RenderEntry"} -> "Render"
      [] OTHER -> step
StageRank(stage) ==
    CASE stage = "Load" -> 1
      [] stage = "Validate" -> 2
      [] stage = "BuildContext" -> 3
      [] stage = "Render" -> 4
      [] stage = "Compile" -> 5
      [] stage = "Persist" -> 6

\* C4 as stated: the stages start in the order Load, Validate, Build
\* Context, Render (template load, filter registration, rendering), Compile,
\* Persist, each only after every earlier stage has completed.
C4_StagesInStatedOrder ==
    \A i, j \in DOMAIN trace :
        i < j => StageRank(StageOf(trace[i])) <= StageRank(StageOf(trace[j]))

\* C4 as amended: the steps start in the fixed order Load, Validate, load the
\* templates, register the filter, Build Context, render the entry
\* template, Compile, Persist; each starts once, only after every earlier
\* step has completed, and a step that fails is the last step started.
C4_StepsInOrder ==
    /\ Len(trace) <= Len(Steps)
    /\ \A i \in DOMAIN trace : trace[i] = Steps[i]
    /\ completed \subseteq Range(trace)
    /\ \A i \in DOMAIN trace : i < Len(trace) => trace[i] \in completed
    /\ (Exited /\ exitCode # Some(0)) => trace[Len(trace)] \notin completed

C4_Witness ==
    /\ Exited
    /\ exitCode = Some(0)
    /\ trace = Steps
    /\ completed = Range(Steps)

\* C5: the exit code is 0 exactly when every step succeeded; a run that
\* fails before Compile (data file unreadable or invalid, templates that do
\* not load, an entry template that does not exist) ends with a non-zero
\* exit code, the compiler never invoked and no output file written.
C5_ExitCode ==
    /\ ~Exited => exitCode = None
    /\ Exited =>
          /\ exitCode # None
          /\ exitCode = Some(0) <=> completed = Range(Steps)
          /\ ~Started("Compile") => (exitCode # Some(0) /\ session = None /\ outputs = {})
          /\ (Started("RenderEntry") /\ args.template_filename \notin DOMAIN Templates) =>
                (diag.kind = "template not found" /\ exitCode # Some(0) /\ outputs = {})

C5_Witness ==
    /\ Exited
    /\ args.template_filename = "missing.tex"
    /\ diag = [msg |-> "rending template failed", kind |-> "template not found",
               path |-> <<"missing.tex">>]
    /\ exitCode = Some(101)
    /\ ~Started("Compile")
    /\ outputs = {}

(***************************************************************************)
(* What a data file lacks, and whether what it holds has the schema's type *)
(***************************************************************************)
Required(fields) == Range(fields) \ {"end_date"}
IsTable(e, k) == k \in Keys(e) /\ Get(e, k).t = "table"
IsTables(e, k) ==
    k \in Keys(e) /\ Get(e, k).t = "array" /\ \A i \in DOMAIN Get(e, k).a : Get(e, k).a[i].t = "table"
LackedBy(e, fields) == {<<f>> : f \in Required(fields) \ Keys(e)}
LackedIn(e, k, fields) ==
    IF IsTable(e, k) THEN {<<k>> \o q : q \in LackedBy(Get(e, k).e, fields)} ELSE {}
Elements(e, k) == IF IsTables(e, k) THEN {Get(e, k).a[i].e : i \in DOMAIN Get(e, k).a} ELSE {}

\* The paths of the required fields a document does not hold.
AbsentPaths(doc) ==
    LackedBy(doc, AuthorFields)
    \cup LackedIn(doc, "location", LocationFields)
    \cup (IF IsTable(doc, "social")
          THEN UNION {{<<"social">> \o q : q \in LackedIn(Get(doc, "social").e, k, SocialFields)} :
                         k \in Keys(Get(doc, "social").e)}
          ELSE {})
    \cup UNION {{<<"experiences">> \o q :
                    q \in LackedBy(x, ExperienceFields) \cup LackedIn(x, "company", CompanyFields)} :
                   x \in Elements(doc, "experiences")}
    \cup UNION {{<<"educations">> \o q :
                    q \in LackedBy(x, EducationFields)
                          \cup LackedIn(x, "gpa", GradePointAverageFields)} :
                   x \in Elements(doc, "educations")}
    \cup UNION {{<<"skills">> \o q : q \in LackedBy(x, SkillFields)} : x \in Elements(doc, "skills")}
    \cup UNION {{<<"projects">> \o q : q \in LackedBy(x, ProjectFields)} :
                   x \in Elements(doc, "projects")}

TextOk(v) == v.t = "string"
TextsOk(v) == v.t = "array" /\ \A i \in DOMAIN v.a : TextOk(v.a[i])
EntriesOk(e, fields, FieldOk(_, _)) ==
    \A i \in DOMAIN e : e[i].k \in Range(fields) => FieldOk(e[i].k, e[i].v)
AllTextOk(v, fields) == v.t = "table" /\ EntriesOk(v.e, fields, LAMBDA k, x : TextOk(x))
EachOk(v, ElemOk(_)) == v.t = "array" /\ \A i \in DOMAIN v.a : ElemOk(v.a[i])
ExperienceOk(v) ==
    v.t = "table" /\ EntriesOk(v.e, ExperienceFields, LAMBDA k, x :
        CASE k = "company" -> AllTextOk(x, CompanyFields)
          [] k \in {"start_date", "end_date"} -> x.t = "datetime"
          [] k = "current" -> x.t = "boolean"
          [] k \in {"display", "highlights"} -> TextsOk(x)
          [] OTHER -> TextOk(x))
EducationOk(v) ==
    v.t = "table" /\ EntriesOk(v.e, EducationFields, LAMBDA k, x :
        CASE k \in {"start_date", "end_date"} -> x.t = "datetime"
          [] k = "current" -> x.t = "boolean"
          [] k = "gpa" -> /\ x.t = "table"
                          /\ EntriesOk(x.e, GradePointAverageFields,
                                       LAMBDA g, y : y.t \in {"float", "integer"})
          [] k = "achievements" -> TextsOk(x)
          [] OTHER -> TextOk(x))

\* Every value the document holds for a field has the type of the field.
WellTyped(doc) ==
    EntriesOk(doc, AuthorFields, LAMBDA k, x :
        CASE k = "location" -> AllTextOk(x, LocationFields)
          [] k = "social" ->
                x.t = "table" /\ \A i \in DOMAIN x.e : AllTextOk(x.e[i].v, SocialFields)
          [] k = "experiences" -> EachOk(x, ExperienceOk)
          [] k = "educations" -> EachOk(x, EducationOk)
          [] k = "skills" -> EachOk(x, LAMBDA y : AllTextOk(y, SkillFields))
          [] k = "projects" -> EachOk(x, LAMBDA y : AllTextOk(y, ProjectFields))
          [] OTHER -> TextOk(x))

MissingFieldReported ==
    /\ Exited
    /\ diag.msg = "couldn't parse toml data"
    /\ diag.kind = "missing field"
    /\ diag.path \in AbsentPaths(raw[1])
    /\ ~Started("LoadTemplates")
    /\ author = None

EntryLists == {"experiences", "educations"}
EntryIndexes(list) == DOMAIN author[1][list]
Given(list, i) == Get(raw[1], list).a[i].e
Entry(list, i) == author[1][list][i]
Node(list, i) == context[1][list].a[i].m

\* C8: in every validated Experience and Education, an unset end_date is
\* absent; an end_date set to a date-time is present and is the canonical
\* string of that date-time; start_date is always there, the canonical
\* string of its date-time, never empty, and the string of no other
\* date-time.
C8_DatesNormalized ==
    author # None =>
        \A list \in EntryLists : \A i \in EntryIndexes(list) :
            /\ "end_date" \notin Keys(Given(list, i)) => Entry(list, i).end_date = None
            /\ "end_date" \in Keys(Given(list, i)) =>
                  /\ Get(Given(list, i), "end_date").t = "datetime"
                  /\ Entry(list, i).end_date =
                        Some(DatetimeToString(Get(Given(list, i), "end_date").d))
                  /\ Entry(list, i).end_date[1] # <<>>
            /\ "start_date" \in Keys(Given(list, i))
            /\ Entry(list, i).start_date = DatetimeToString(Get(Given(list, i), "start_date").d)
            /\ Entry(list, i).start_date # <<>>
            /\ \A d \in Datetimes :
                  DatetimeToString(d) = Entry(list, i).start_date =>
                      d = Get(Given(list, i), "start_date").d

C8_Witness ==
    /\ author # None
    /\ Len(author[1].experiences) = 2
    /\ author[1].experiences[1].end_date = None
    /\ author[1].experiences[2].end_date =
          Some(<<"2", "0", "2", "3", "-", "1", "2", "-", "3", "1", "T",
                 "0", "9", ":", "0", "5", ":", "0", "0", "Z">>)
    /\ author[1].experiences[2].start_date = <<"2", "0", "1", "9", "-", "0", "8", "-", "0", "5">>

\* C9 as stated: every validated entry with current = true has no end date,
\* and no context holds an entry that is current and has an end date.
C9_CurrentHasNoEndDate ==
    /\ author # None =>
          \A list \in EntryLists : \A i \in EntryIndexes(list) :
              Entry(list, i).current => Entry(list, i).end_date = None
    /\ context # None =>
          \A list \in EntryLists : \A i \in EntryIndexes(list) :
              Node(list, i).current = JBool(TRUE) => Node(list, i).end_date = JNull

\* C9 as amended: Validate does not relate the two fields: each entry keeps
\* the file's current flag, and its end date is absent exactly when the
\* file leaves end_date unset, whatever the flag; the context holds both as
\* the Author does.
C9_EndDateFollowsInput ==
    /\ author # None =>
          \A list \in EntryLists : \A i \in EntryIndexes(list) :
              /\ Entry(list, i).current = Get(Given(list, i), "current").b
              /\ Entry(list, i).end_date = None <=> "end_date" \notin Keys(Given(list, i))
    /\ context # None =>
          \A list \in EntryLists : \A i \in EntryIndexes(list) :
              /\ Node(list, i).current = JBool(Entry(list, i).current)
              /\ Node(list, i).end_date = JNull <=> Entry(list, i).end_date = None

C9_Witness ==
    /\ context # None
    /\ Len(author[1].experiences) >= 1
    /\ author[1].experiences[1].current
    /\ author[1].experiences[1].end_date # None
    /\ Node("experiences", 1).current = JBool(TRUE)
    /\ Node("experiences", 1).end_date # JNull

(***************************************************************************)
(* The context and the compiler session                                    *)
(***************************************************************************)
TextNodes(node, fields, x) ==
    /\ node.t = "object"
    /\ DOMAIN node.m = Range(fields)
    /\ \A f \in Range(fields) : node.m[f] = JStr(x[f])
TextList(node, x) ==
    /\ node.t = "array"
    /\ DOMAIN node.a = DOMAIN x
    /\ \A i \in DOMAIN x : node.a[i] = JStr(x[i])
ListOf(node, x, Same(_, _)) ==
    /\ node.t = "array"
    /\ DOMAIN node.a = DOMAIN x
    /\ \A i \in DOMAIN x : Same(node.a[i], x[i])
DateNode(node, x) == IF x = None THEN node = JNull ELSE node = JStr(x[1])
ExperienceNode(node, x) ==
    /\ node.t = "object"
    /\ DOMAIN node.m = Range(ExperienceFields)
    /\ TextNodes(node.m.company, CompanyFields, x.company)
    /\ \A f \in {"department", "position", "website", "start_date"} : node.m[f] = JStr(x[f])
    /\ DateNode(node.m.end_date, x.end_date)
    /\ node.m.current = JBool(x.current)
    /\ TextList(node.m.display, x.display)
    /\ TextList(node.m.highlights, x.highlights)
EducationNode(node, x) ==
    /\ node.t = "object"
    /\ DOMAIN node.m = Range(EducationFields)
    /\ \A f \in {"institution", "website", "major", "minor", "start_date", "location",
                 "degree", "latin_honors"} : node.m[f] = JStr(x[f])
    /\ DateNode(node.m.end_date, x.end_date)
    /\ node.m.current = JBool(x.current)
    /\ node.m.gpa.t = "object"
    /\ DOMAIN node.m.gpa.m = Range(GradePointAverageFields)
    /\ \A f \in Range(GradePointAverageFields) : node.m.gpa.m[f] = JNum(x.gpa[f])
    /\ TextList(node.m.achievements, x.achievements)

\* C6: the context built from a valid Author holds exactly one node for each
\* field of each entity, under the field's name and holding the field's
\* value (null for an absent end_date), lists in their order, and the Author
\* is what Validate produced.
C6_ContextMirrorsAuthor ==
    context # None =>
        LET a == author[1]
            c == context[1]
        IN  /\ author = Some(DeAuthor(raw[1]).val)
            /\ DOMAIN c = Range(AuthorFields)
            /\ \A f \in {"name", "email", "description", "picture", "phone", "website"} :
                  c[f] = JStr(a[f])
            /\ TextNodes(c.location, LocationFields, a.location)
            /\ c.social.t = "object"
            /\ DOMAIN c.social.m = DOMAIN a.social
            /\ \A k \in DOMAIN a.social : TextNodes(c.social.m[k], SocialFields, a.social[k])
            /\ ListOf(c.experiences, a.experiences, ExperienceNode)
            /\ ListOf(c.educations, a.educations, EducationNode)
            /\ ListOf(c.skills, a.skills, LAMBDA n, x : TextNodes(n, SkillFields, x))
            /\ ListOf(c.projects, a.projects, LAMBDA n, x : TextNodes(n, ProjectFields, x))

\* C10: the compiler session is configured with the run's values: tex_root
\* as the filesystem root, the entry filename as the input name, the
\* rendered text as the primary input, PDF output into output_root; and
\* whatever tex_root is, the session is built once rendering has succeeded.
C10_SessionUsesTexRoot ==
    /\ session # None =>
          /\ session[1].filesystem_root = args.tex_root
          /\ session[1].tex_input_name = args.template_filename
          /\ session[1].primary_input = rendered[1]
          /\ session[1].output_format = "Pdf"
          /\ session[1].output_dir = args.output_root
    /\ diag.msg # "filepath has no parent"

====
